---- MODULE Spec2Model ----
(***************************************************************************)
(* Model of soundcloud-embedder's media assembly: encode_video             *)
(* (src/src/encode.rs) and the download task it spawns.                    *)
(*                                                                         *)
(* The calling sequence and the spawned download task are two processes    *)
(* with their own program counters (pc, tpc).  Everything the function     *)
(* asks of the outside world (HTTP requests, the image decoder, the vpx    *)
(* encoder, the webm writer) is recorded, with its outcome, in `trace`     *)
(* (calling sequence) and `fetched` (download task).                       *)
(*                                                                         *)
(* The audio bytes are modelled as the sequence of opus packets they       *)
(* carry.  `offset` is a u64 in the code; the values reached here stay far *)
(* below 2^31, so no wrap-around is modelled.                              *)
(***************************************************************************)
EXTENDS Integers, Sequences, FiniteSets, Bags, TLC

(* ---------------------------------------------------------------------- *)
(* Bounds of the model                                                     *)
(* ---------------------------------------------------------------------- *)
\* longest playlist, in lines
MaxLines == 3
\* most frames one vpx.encode() call emits
MaxEncodeFrames == 1
\* most frames the finished encoder emits when polled
MaxFlushFrames == 1
\* largest image side, in pixels
MaxDim == 4
\* requests the server is given
MaxRequests == 2

(* ---------------------------------------------------------------------- *)
(* Program constants                                                       *)
(* ---------------------------------------------------------------------- *)
sample_rate == 48000
ns_per_sec == 100000000
\* integer (u64) division: 2083
ns_per_sample == ns_per_sec \div sample_rate
\* frame.pts as u64 * 1000000
VideoPtsScale == 1000000
\* webm.finalize(Some(offset / 100000))
DurationDivisor == 100000

(* ---------------------------------------------------------------------- *)
(* Inputs                                                                  *)
(* ---------------------------------------------------------------------- *)
NL == "\n"
\* the two kinds of playlist line
LineKinds == {"url", "comment"}

SeqsUpTo(S, n) == UNION {[1..k -> S] : k \in 0..n}

\* the url named on line i: "u", "uu", "uuu", ... (each line names its own)
UrlOfLine(i) == [k \in 1..i |-> "u"]
\* line i of a playlist: a segment url, or a comment that quotes it
LineText(i, kind) == IF kind = "url" THEN UrlOfLine(i) ELSE <<"#">> \o UrlOfLine(i)

RECURSIVE JoinLines(_, _)
\* the lines from line i on, separated by '\n' (no newline after the last)
JoinLines(kinds, i) ==
    IF i > Len(kinds) THEN <<>>
    ELSE IF i = Len(kinds) THEN LineText(i, kinds[i])
    ELSE LineText(i, kinds[i]) \o <<NL>> \o JoinLines(kinds, i + 1)

\* bodies the playlist request can answer with: with and without final newline
PlaylistTexts ==
    {JoinLines(ks, 1) : ks \in SeqsUpTo(LineKinds, MaxLines)}
    \cup {JoinLines(ks, 1) \o <<NL>> : ks \in SeqsUpTo(LineKinds, MaxLines) \ {<<>>}}

\* opus packets are named by their payload: "P960" and "P5760" carry 960 and
\* 5760 samples, the sample count of "PBAD" cannot be determined
NoSamples == -1
\* opus::Decoder::get_nb_samples: the sample count, or an error (NoSamples)
GetNbSamples(p) ==
    CASE p = "P960" -> 960
      [] p = "P5760" -> 5760
      [] OTHER -> NoSamples

\* half a second of audio: 4 * 5760 + 960 = 24000 samples
HalfSecond == <<"P5760", "P5760", "P5760", "P5760", "P960">>
\* three packets, the sample count of the second cannot be determined
OneBad == <<"P960", "PBAD", "P960">>
\* bodies a segment request can answer with, as the packets they carry
Bodies == {OneBad, HalfSecond}

\* what a server can answer with: a success status (2xx) or another one
Statuses == {"success", "failure"}

\* frames the encoder can emit
VideoFrames == {[data |-> "F0", key |-> TRUE, pts |-> 0],
                [data |-> "F33", key |-> FALSE, pts |-> 33]}

(* ---------------------------------------------------------------------- *)
(* State                                                                   *)
(* ---------------------------------------------------------------------- *)
VARIABLES
    pc,        \* position of encode_video
    result,    \* what encode_video returned
    playlist,  \* text of the playlist response
    trace,     \* calls made by the calling sequence, with their outcome
    frames,    \* Vec<Frame> of encoded video frames
    flushed,   \* frames the finished encoder has handed out
    stream,    \* joined audio bytes, as packets
    rpos,      \* packets the ogg reader has read
    offset,    \* running audio clock
    vpos,      \* frames of `frames` the video loop has consumed
    tpc,       \* position of the download task
    turls,     \* urls the task still has to fetch
    tdata,     \* bytes the task has accumulated, as packets
    tresult,   \* result of the task
    fetched,   \* request_bytes calls of the task, with their outcome
    status,    \* HTTP status of the response the calling sequence has just
               \* read ("none" once a later step has run: the response is gone)
    tstatus,   \* the same for the download task
    image,     \* the RgbImage handed to rgb_to_i420
    dest,      \* the Vec<u8> rgb_to_i420 returns
    cache,     \* the redis database: key -> value and time to live
    counters,  \* the prometheus counters of main.rs
    handlers   \* the requests that have come, a bag: position, locals, response

vars == <<pc, result, playlist, trace, frames, flushed, stream, rpos, offset,
          vpos, tpc, turls, tdata, tresult, fetched, status, tstatus, image, dest,
          cache, counters, handlers>>
mainVars == <<pc, result, playlist, trace, frames, flushed, stream, rpos,
              offset, vpos, status>>
taskVars == <<tpc, turls, tdata, tresult, fetched, tstatus>>
convVars == <<image, dest>>
srvVars == <<cache, counters, handlers>>

NoResult == [kind |-> "None", err |-> "", bytes |-> <<>>]
ErrResult(e) == [kind |-> "Err", err |-> e, bytes |-> <<>>]
PanicResult(e) == [kind |-> "Panic", err |-> e, bytes |-> <<>>]
OkResult(b) == [kind |-> "Ok", err |-> "", bytes |-> b]

\* one entry of trace
Call(op, data, ts, key, ok) ==
    [op |-> op, data |-> data, ts |-> ts, key |-> key, ok |-> ok]
Plain(op, ok) == Call(op, "", 0, FALSE, ok)

WriterOps == {"segment_new", "add_video_track", "set_color", "add_audio_track",
              "audio_add_frame", "video_add_frame", "finalize"}
\* what the container writer has seen
WriterCalls == SelectSeq(trace, LAMBDA c : c.op \in WriterOps)
\* the buffer `out` the writer writes into: the calls it accepted
Out == SelectSeq(WriterCalls, LAMBDA c : c.ok)

(* ---------------------------------------------------------------------- *)
(* Playlist parsing: playlist.split('\n').filter(!starts_with('#'))        *)
(* ---------------------------------------------------------------------- *)
HasNL(s) == \E i \in 1..Len(s) : s[i] = NL
FirstNL(s) == CHOOSE i \in 1..Len(s) : s[i] = NL /\ \A j \in 1..(i-1) : s[j] # NL

RECURSIVE Split(_)
\* str::split('\n'): the pieces between newlines; a final newline leaves a
\* last, empty piece
Split(s) ==
    IF ~HasNL(s) THEN <<s>>
    ELSE <<SubSeq(s, 1, FirstNL(s) - 1)>> \o Split(SubSeq(s, FirstNL(s) + 1, Len(s)))

StartsWithHash(line) == Len(line) > 0 /\ line[1] = "#"

ParsePlaylist(text) == SelectSeq(Split(text), LAMBDA l : ~StartsWithHash(l))

(* ---------------------------------------------------------------------- *)
(* The server's data (main.rs)                                             *)
(* ---------------------------------------------------------------------- *)
\* lines 41-48
CACHE_TTL_SECS == 8 * 60 * 60
VID_CACHE_TTL == 24 * 60 * 60
METRICS_CACHE_TTL == 10 * 60

\* lines 53-64: the registered counters, by their metric names
Counters == {"oembed_requests", "page_requests", "video_requests",
             "invalid_page_requests", "page_errors", "cache_hits", "cache_misses",
             "vid_cache_hits", "vid_cache_misses", "metrics_requests"}
Zero == [c \in Counters |-> 0]

\* a value in the database or in a response: what it is (tag), its text (s)
\* and, for the encoded metrics, the counter values it holds (n)
Val(tag, s, n) == [tag |-> tag, s |-> s, n |-> n]
Nil == Val("nil", "", Zero)
\* serde_json::to_string(&resolved), line 194
ToJson(info) == Val("json", info, Zero)
\* mutant: any string is taken for a ResolveInfo
FromJson_any(v) == IF v.tag \in {"json", "raw"} THEN v.s ELSE "none"
\* serde_json::from_str(&s).ok(), line 180: "none" when s does not parse
FromJson(v) == IF v.tag = "json" THEN v.s ELSE "none"
\* a string that is no ResolveInfo
Garbage == Val("raw", "garbage", Zero)
\* the bytes of a video
Bytes(b) == Val("bytes", b, Zero)
\* encoder.encode_to_string(&metric_families), line 304
Text(n) == Val("text", "", n)
\* make_embed_page(hostname, resolved), line 217
Html(info) == Val("html", info, Zero)
Plaintext(t) == Val("plain", t, Zero)

\* what api::resolve can return, and what encode_video can
ResolveInfos == {"Track", "Playlist"}
Videos == {"W1", "W2"}

NoEntry == [val |-> Nil, ttl |-> 0]
Entry(v, ttl) == [val |-> v, ttl |-> ttl]

\* paths, as the pieces between the slashes
TrackPath == <<"user", "track">>
SetPath == <<"user", "sets", "album">>
BadPath == <<"user">>
Paths == {TrackPath, SetPath, BadPath}
\* the paths asked of /video, and the paths asked as pages
PathsOf(kind) ==
    IF kind = "video" THEN Paths
    ELSE IF kind = "page" THEN {SetPath, BadPath}
    ELSE {<<>>}
\* pieces that match s-[^/]+
ShareSegs == {"s-token"}

\* mutant: every path is taken for a track's
PAGE_URL_any(p) == TRUE
\* line 173: ^/[^/]+/[^/]+(?:/(?:s-[^/]+)?)?$
PAGE_URL(p) ==
    /\ Len(p) \in {2, 3}
    /\ p[1] # "" /\ p[2] # ""
    /\ Len(p) = 3 => p[3] \in {""} \cup ShareSegs

\* line 172: ^/[^/]+/(?:sets/)?[^/]+(?:/(?:s-[^/]+)?)?$
PAGE_SET_URL(p) ==
    \/ PAGE_URL(p)
    \/ /\ Len(p) \in {3, 4}
       /\ p[1] # "" /\ p[2] = "sets" /\ p[3] # ""
       /\ Len(p) = 4 => p[4] \in {""} \cup ShareSegs

\* format!("page:{path}"), format!("video:{path}")
Key(prefix, path) == <<prefix>> \o path
PageKey(path) == Key("page:", path)
\* mutant: the video is stored under the page's key
VideoKey_page(path) == Key("page:", path)
VideoKey(path) == Key("video:", path)
MetricsKey == <<"metrics">>
ClientIdKey == <<"client_id">>
Keys == {PageKey(p) : p \in Paths} \cup {VideoKey(p) : p \in Paths}
          \cup {MetricsKey, ClientIdKey}

Kinds == {"oembed", "metrics", "video", "page"}

\* what a request did: database reads and writes, API requests, calls of
\* encode_video, increments of counters
Ev(op, key, val, ttl, ok) == [op |-> op, key |-> key, val |-> val, ttl |-> ttl, ok |-> ok]
IncEv(c) == Ev("inc", <<c>>, Nil, 0, TRUE)

NewHandler ==
    [pc |-> "new", kind |-> "", path |-> <<>>, resolved |-> "none", video |-> "",
     snap |-> Zero, res |-> "None", code |-> 0, body |-> Nil, log |-> <<>>]

\* line 456: main stores the client id, without a time to live
EmptyCache ==
    [k \in Keys |-> IF k = ClientIdKey THEN Entry(Val("raw", "client_id", Zero), 0)
                    ELSE NoEntry]

\* what an earlier run of the server may have left in the database
InitialCaches ==
    {[EmptyCache EXCEPT ![PageKey(TrackPath)] = e] :
        e \in {NoEntry, Entry(Garbage, CACHE_TTL_SECS)}}

\* the server has started and no request has come
ServerIdle ==
    /\ cache = EmptyCache
    /\ counters = Zero
    /\ handlers = EmptyBag

(* ---------------------------------------------------------------------- *)
(* Initial state                                                           *)
(* ---------------------------------------------------------------------- *)
\* no image: the conversion is modelled on its own, under SpecI420
NoImage == [w |-> 0, h |-> 0, px |-> <<>>]

\* encode_video has been called and has done nothing yet
Idle ==
    /\ pc = "manifest"
    /\ result = NoResult
    /\ playlist = <<>>
    /\ trace = <<>>
    /\ frames = <<>>
    /\ flushed = 0
    /\ stream = <<>>
    /\ rpos = 0
    /\ offset = 0
    /\ vpos = 0
    /\ tpc = "unspawned"
    /\ turls = <<>>
    /\ tdata = <<>>
    /\ tresult = NoResult
    /\ fetched = <<>>
    /\ status = "none"
    /\ tstatus = "none"

Init ==
    /\ Idle
    /\ image = NoImage
    /\ dest = <<>>
    /\ ServerIdle

\* mutant: an error of the download task that has already happened is
\* returned in place of the calling sequence's own
Fail_first(c) ==
    /\ trace' = Append(trace, c)
    /\ result' = IF tresult.kind = "Err" THEN ErrResult("join") ELSE ErrResult(c.op)
    /\ pc' = "done"

\* return Err(..) / `?` from the calling sequence after the call c failed
Fail(c) ==
    /\ trace' = Append(trace, c)
    /\ result' = ErrResult(c.op)
    /\ pc' = "done"

(* ---------------------------------------------------------------------- *)
(* The calling sequence                                                    *)
(* ---------------------------------------------------------------------- *)
\* line 54: fetch the manifest and parse it as JSON
RequestManifest ==
    /\ pc = "manifest"
    /\ \/ /\ Fail(Plain("manifest_fetch", FALSE))
          /\ status' = "none"
       \/ \E s \in Statuses :
            /\ status' = s
            /\ \/ Fail(Plain("manifest_parse", FALSE))
               \/ /\ trace' = Append(trace, Plain("manifest_fetch", TRUE))
                  /\ pc' = "playlist"
                  /\ UNCHANGED result
    /\ UNCHANGED <<playlist, frames, flushed, stream, rpos, offset, vpos>>
    /\ UNCHANGED taskVars
    /\ UNCHANGED convVars
    /\ UNCHANGED srvVars

\* lines 56-74: fetch the playlist, parse it, spawn the download task and
\* create the segment
RequestPlaylist ==
    /\ pc = "playlist"
    /\ \/ /\ Fail(Plain("playlist_fetch", FALSE))
          /\ status' = "none"
          /\ UNCHANGED <<playlist, tpc, turls>>
       \/ \E text \in PlaylistTexts, s \in Statuses :
            /\ status' = s
            /\ playlist' = text
            /\ turls' = ParsePlaylist(text)
            /\ tpc' = "next"
            /\ \/ /\ trace' = trace \o <<Plain("playlist_fetch", TRUE), Plain("spawn", TRUE),
                                         Plain("segment_new", FALSE)>>
                  /\ result' = ErrResult("segment_new")
                  /\ pc' = "done"
               \/ /\ trace' = trace \o <<Plain("playlist_fetch", TRUE), Plain("spawn", TRUE),
                                         Plain("segment_new", TRUE)>>
                  /\ pc' = "image"
                  /\ UNCHANGED result
    /\ UNCHANGED <<frames, flushed, stream, rpos, offset, vpos>>
    /\ UNCHANGED <<tdata, tresult, fetched, tstatus>>
    /\ UNCHANGED convVars
    /\ UNCHANGED srvVars

\* lines 77-78: fetch the cover art and decode it
RequestImage ==
    /\ pc = "image"
    /\ \/ /\ Fail(Plain("image_fetch", FALSE))
          /\ status' = "none"
       \/ \E s \in Statuses :
            /\ status' = s
            /\ \/ /\ trace' = trace \o <<Plain("image_fetch", TRUE), Plain("image_decode", FALSE)>>
                  /\ result' = ErrResult("image_decode")
                  /\ pc' = "done"
               \/ /\ trace' = trace \o <<Plain("image_fetch", TRUE), Plain("image_decode", TRUE)>>
                  /\ pc' = "video_track"
                  /\ UNCHANGED result
    /\ UNCHANGED <<playlist, frames, flushed, stream, rpos, offset, vpos>>
    /\ UNCHANGED taskVars
    /\ UNCHANGED convVars
    /\ UNCHANGED srvVars

\* mutant: what set_color returns is not looked at
AddVideoTrack_unchecked ==
    /\ pc = "video_track"
    /\ \E ok \in BOOLEAN :
          trace' = trace \o <<Plain("add_video_track", TRUE), Plain("set_color", ok)>>
    /\ pc' = "encoder_new"
    /\ UNCHANGED result
    /\ UNCHANGED <<playlist, frames, flushed, stream, rpos, offset, vpos>>
    /\ status' = "none"
    /\ UNCHANGED taskVars
    /\ UNCHANGED convVars
    /\ UNCHANGED srvVars

\* lines 80-84: create the video track and set its colour metadata
AddVideoTrack ==
    /\ pc = "video_track"
    /\ \/ /\ trace' = trace \o <<Plain("add_video_track", TRUE), Plain("set_color", FALSE)>>
          /\ result' = ErrResult("set_color")
          /\ pc' = "done"
       \/ /\ trace' = trace \o <<Plain("add_video_track", TRUE), Plain("set_color", TRUE)>>
          /\ pc' = "encoder_new"
          /\ UNCHANGED result
    /\ UNCHANGED <<playlist, frames, flushed, stream, rpos, offset, vpos>>
    /\ status' = "none"
    /\ UNCHANGED taskVars
    /\ UNCHANGED convVars
    /\ UNCHANGED srvVars

\* lines 96-103: configure the encoder; .unwrap() panics when it is refused
EncoderNew ==
    /\ pc = "encoder_new"
    /\ \/ /\ trace' = Append(trace, Plain("encoder_new", FALSE))
          /\ result' = PanicResult("encoder_new")
          /\ pc' = "done"
       \/ /\ trace' = Append(trace, Plain("encoder_new", TRUE))
          /\ pc' = "encode"
          /\ UNCHANGED result
    /\ UNCHANGED <<playlist, frames, flushed, stream, rpos, offset, vpos>>
    /\ status' = "none"
    /\ UNCHANGED taskVars
    /\ UNCHANGED convVars
    /\ UNCHANGED srvVars

\* lines 105-114: convert the image, encode it at pts 0, collect what the
\* encoder emits, then finish the encoder
\* the encoder hands out the frame f
Emit(f) == Call("emit", f.data, f.pts, f.key, TRUE)
Emits(fs) == [i \in 1..Len(fs) |-> Emit(fs[i])]

\* mutant: only the frame pushed last is kept
Push_last(v, f) == <<f>>
\* frames.push(Frame { .. })
Push(v, f) == Append(v, f)

Encode ==
    /\ pc = "encode"
    /\ \/ /\ Fail(Plain("encode", FALSE))
          /\ UNCHANGED frames
       \/ \E fs \in SeqsUpTo(VideoFrames, MaxEncodeFrames) :
            /\ frames' = frames \o fs
            /\ \/ /\ trace' = trace \o <<Plain("encode", TRUE)>> \o Emits(fs)
                                     \o <<Plain("finish", FALSE)>>
                  /\ result' = ErrResult("finish")
                  /\ pc' = "done"
               \/ /\ trace' = trace \o <<Plain("encode", TRUE)>> \o Emits(fs)
                                     \o <<Plain("finish", TRUE)>>
                  /\ pc' = "poll"
                  /\ UNCHANGED result
    /\ UNCHANGED <<playlist, flushed, stream, rpos, offset, vpos>>
    /\ status' = "none"
    /\ UNCHANGED taskVars
    /\ UNCHANGED convVars
    /\ UNCHANGED srvVars

\* lines 115-121: one poll of the finished encoder
\* line 129-130 follow the last poll: create the audio track and the decoder
PollFinish ==
    /\ pc = "poll"
    /\ \/ /\ Fail(Plain("poll", FALSE))
          /\ UNCHANGED <<frames, flushed>>
       \/ /\ flushed < MaxFlushFrames
          /\ \E f \in VideoFrames :
               /\ frames' = Push(frames, f)
               /\ flushed' = flushed + 1
               /\ trace' = trace \o <<Plain("poll", TRUE), Emit(f)>>
               /\ UNCHANGED <<pc, result>>
       \/ /\ UNCHANGED <<frames, flushed>>
          /\ \/ /\ trace' = trace \o <<Plain("poll", TRUE), Plain("add_audio_track", TRUE),
                                       Plain("decoder_new", FALSE)>>
                /\ result' = ErrResult("decoder_new")
                /\ pc' = "done"
             \/ /\ trace' = trace \o <<Plain("poll", TRUE), Plain("add_audio_track", TRUE),
                                       Plain("decoder_new", TRUE)>>
                /\ pc' = "join"
                /\ UNCHANGED result
    /\ UNCHANGED <<playlist, stream, rpos, offset, vpos>>
    /\ status' = "none"
    /\ UNCHANGED taskVars
    /\ UNCHANGED convVars
    /\ UNCHANGED srvVars

\* mutant: the task is not waited for; what it has downloaded so far is taken
Join_early ==
    /\ pc = "join"
    /\ \/ /\ tresult.kind = "Err"
          /\ Fail(Plain("join", FALSE))
          /\ UNCHANGED stream
       \/ /\ tresult.kind # "Err"
          /\ stream' = tdata
          /\ trace' = Append(trace, Plain("join", TRUE))
          /\ pc' = "repacketize"
          /\ UNCHANGED result
    /\ UNCHANGED <<playlist, frames, flushed, rpos, offset, vpos>>
    /\ status' = "none"
    /\ UNCHANGED taskVars
    /\ UNCHANGED convVars
    /\ UNCHANGED srvVars

\* line 134: download_task.await??
Join ==
    /\ pc = "join"
    /\ tpc = "done"
    /\ \/ /\ tresult.kind = "Err"
          /\ Fail(Plain("join", FALSE))
          /\ UNCHANGED stream
       \/ /\ tresult.kind = "Ok"
          /\ stream' = tresult.bytes
          /\ trace' = Append(trace, Plain("join", TRUE))
          /\ pc' = "repacketize"
          /\ UNCHANGED result
    /\ UNCHANGED <<playlist, frames, flushed, rpos, offset, vpos>>
    /\ status' = "none"
    /\ UNCHANGED taskVars
    /\ UNCHANGED convVars
    /\ UNCHANGED srvVars

\* mutant: every packet is taken to last 20 ms
Advance_fixed(clock, samples) == clock + 960 * ns_per_sample
\* offset += (samples as u64) * ns_per_sample
Advance(clock, samples) == clock + samples * ns_per_sample

\* mutant: the probe's error is not told from a sample count
Determined_always(samples) == TRUE
\* match decoder.get_nb_samples(..): the Ok arm or the Err arm
Determined(samples) == samples # NoSamples

\* lines 137-147: one iteration of the packet loop
ReadPacket ==
    /\ pc = "repacketize"
    /\ \/ /\ Fail(Plain("read_packet", FALSE))
          /\ UNCHANGED <<rpos, offset>>
       \/ /\ rpos = Len(stream)
          /\ pc' = "video"
          /\ UNCHANGED <<trace, result, rpos, offset>>
       \/ /\ rpos < Len(stream)
          /\ rpos' = rpos + 1
          /\ LET p == stream[rpos + 1]
                 samples == GetNbSamples(p)
             IN IF Determined(samples)
                THEN \/ /\ Fail(Call("audio_add_frame", p, offset, FALSE, FALSE))
                        /\ UNCHANGED offset
                     \/ /\ trace' = Append(trace, Call("audio_add_frame", p, offset, FALSE, TRUE))
                        /\ offset' = Advance(offset, samples)
                        /\ UNCHANGED <<pc, result>>
                ELSE UNCHANGED <<trace, result, pc, offset>>
    /\ UNCHANGED <<playlist, frames, flushed, stream, vpos>>
    /\ status' = "none"
    /\ UNCHANGED taskVars
    /\ UNCHANGED convVars
    /\ UNCHANGED srvVars

\* mutant: the video loop is not held back until the packet loop has ended
InVideoLoop_early == pc \in {"repacketize", "video"}
\* the video loop (line 149) runs once the packet loop (line 137) has ended
InVideoLoop == pc = "video"

\* mutant: the frames are taken last first
FrameAt_rev(i) == frames[Len(frames) + 1 - i]
\* `for frame in frames`: the i-th frame handed to the loop body
FrameAt(i) == frames[i]

\* mutant: what add_frame returns for a video frame is not looked at
AddVideoFrame_unchecked ==
    /\ InVideoLoop
    /\ vpos < Len(frames)
    /\ vpos' = vpos + 1
    /\ LET f == FrameAt(vpos + 1)
       IN \E ok \in BOOLEAN :
            trace' = Append(trace, Call("video_add_frame", f.data, f.pts * VideoPtsScale, f.key, ok))
    /\ UNCHANGED <<pc, result>>
    /\ UNCHANGED <<playlist, frames, flushed, stream, rpos, offset>>
    /\ status' = "none"
    /\ UNCHANGED taskVars
    /\ UNCHANGED convVars
    /\ UNCHANGED srvVars

\* lines 149-154: one iteration of the video loop
AddVideoFrame ==
    /\ InVideoLoop
    /\ vpos < Len(frames)
    /\ vpos' = vpos + 1
    /\ LET f == FrameAt(vpos + 1)
       IN \/ Fail(Call("video_add_frame", f.data, f.pts * VideoPtsScale, f.key, FALSE))
          \/ /\ trace' = Append(trace, Call("video_add_frame", f.data, f.pts * VideoPtsScale, f.key, TRUE))
             /\ UNCHANGED <<pc, result>>
    /\ UNCHANGED <<playlist, frames, flushed, stream, rpos, offset>>
    /\ status' = "none"
    /\ UNCHANGED taskVars
    /\ UNCHANGED convVars
    /\ UNCHANGED srvVars

\* mutant: a rejected finalize is tried again
Finalize_again ==
    /\ pc = "video"
    /\ vpos = Len(frames)
    /\ LET d == offset \div DurationDivisor
       IN \/ /\ trace' = Append(trace, Call("finalize", "", d, FALSE, FALSE))
             /\ UNCHANGED <<pc, result>>
          \/ /\ trace' = Append(trace, Call("finalize", "", d, FALSE, TRUE))
             /\ result' = OkResult(SelectSeq(trace', LAMBDA c : c.op \in WriterOps /\ c.ok))
             /\ pc' = "done"
    /\ UNCHANGED <<playlist, frames, flushed, stream, rpos, offset, vpos>>
    /\ status' = "none"
    /\ UNCHANGED taskVars
    /\ UNCHANGED convVars
    /\ UNCHANGED srvVars

\* mutant: the value finalize returns is not looked at
Finalize_unchecked ==
    /\ pc = "video"
    /\ vpos = Len(frames)
    /\ LET d == offset \div DurationDivisor
       IN \E ok \in BOOLEAN :
             /\ trace' = Append(trace, Call("finalize", "", d, FALSE, ok))
             /\ result' = OkResult(SelectSeq(trace', LAMBDA c : c.op \in WriterOps /\ c.ok))
             /\ pc' = "done"
    /\ UNCHANGED <<playlist, frames, flushed, stream, rpos, offset, vpos>>
    /\ status' = "none"
    /\ UNCHANGED taskVars
    /\ UNCHANGED convVars
    /\ UNCHANGED srvVars

\* lines 156-161: finalize the container and return the buffer
Finalize ==
    /\ pc = "video"
    /\ vpos = Len(frames)
    /\ LET d == offset \div DurationDivisor
       IN \/ Fail(Call("finalize", "", d, FALSE, FALSE))
          \/ /\ trace' = Append(trace, Call("finalize", "", d, FALSE, TRUE))
             /\ result' = OkResult(SelectSeq(trace', LAMBDA c : c.op \in WriterOps /\ c.ok))
             /\ pc' = "done"
    /\ UNCHANGED <<playlist, frames, flushed, stream, rpos, offset, vpos>>
    /\ status' = "none"
    /\ UNCHANGED taskVars
    /\ UNCHANGED convVars
    /\ UNCHANGED srvVars

(* ---------------------------------------------------------------------- *)
(* The download task (lines 61-70)                                         *)
(* ---------------------------------------------------------------------- *)
\* `for url in urls`: take the next url and send the request, or finish
TaskNext ==
    /\ tpc = "next"
    /\ IF Len(turls) = 0
       THEN /\ tresult' = OkResult(tdata)
            /\ tpc' = "done"
            /\ UNCHANGED <<turls, fetched>>
       ELSE /\ fetched' = Append(fetched, [url |-> Head(turls), state |-> "sent", body |-> <<>>])
            /\ turls' = Tail(turls)
            /\ tpc' = "fetching"
            /\ UNCHANGED tresult
    /\ tstatus' = "none"
    /\ UNCHANGED tdata
    /\ UNCHANGED mainVars
    /\ UNCHANGED convVars
    /\ UNCHANGED srvVars

\* mutant: the new bytes are put in front of the ones already there
AppendBody_front(data, body) == body \o data
\* data.append(&mut ..)
AppendBody(data, body) == data \o body

\* request_bytes(&url).await? : the request fails, or the response arrives.
\* An empty url is no url: the client refuses it and the request fails.
TaskFetched ==
    /\ tpc = "fetching"
    /\ \/ /\ fetched' = [fetched EXCEPT ![Len(fetched)].state = "failed"]
          /\ tresult' = ErrResult("segment_fetch")
          /\ tpc' = "done"
          /\ tstatus' = "none"
          /\ UNCHANGED tdata
       \/ \E body \in Bodies, s \in Statuses :
            /\ fetched[Len(fetched)].url # <<>>
            /\ tstatus' = s
            /\ fetched' = [fetched EXCEPT ![Len(fetched)] =
                               [url |-> @.url, state |-> "ok", body |-> body]]
            /\ tdata' = AppendBody(tdata, body)
            /\ tpc' = "next"
            /\ UNCHANGED tresult
    /\ UNCHANGED turls
    /\ UNCHANGED mainVars
    /\ UNCHANGED convVars
    /\ UNCHANGED srvVars

(* ---------------------------------------------------------------------- *)
(* rgb_to_i420 (lines 13-45)                                               *)
(* ---------------------------------------------------------------------- *)
\* x.min(255).max(0) as u8
clamp(x) == IF x > 255 THEN 255 ELSE IF x < 0 THEN 0 ELSE x

\* i32 division: the quotient is rounded toward zero
TruncDiv(a, b) == IF a >= 0 THEN a \div b ELSE -((-a) \div b)

\* lines 23, 31, 39: one sample of a plane from the pixel p
Sample(plane, p) ==
    CASE plane = "y" -> clamp(TruncDiv(66 * p.r + 129 * p.g + 25 * p.b + 128, 256) + 16)
      [] plane = "u" -> clamp(TruncDiv(-38 * p.r - 74 * p.g + 112 * p.b + 128, 256) + 128)
      [] plane = "v" -> clamp(TruncDiv(112 * p.r - 94 * p.g - 18 * p.b + 128, 256) + 128)

\* image.get_pixel(x, y)
GetPixel(img, x, y) == img.px[<<x, y>>]

RECURSIVE ScanRow(_, _, _, _, _)
\* `for x in (0..image.width()).step_by(step)`, from x on, in row y
ScanRow(img, plane, step, y, x) ==
    IF x >= img.w THEN <<>>
    ELSE <<Sample(plane, GetPixel(img, x, y))>> \o ScanRow(img, plane, step, y, x + step)

RECURSIVE ScanRows(_, _, _, _)
\* `for y in (0..image.height()).step_by(step)`, from y on
ScanRows(img, plane, step, y) ==
    IF y >= img.h THEN <<>>
    ELSE ScanRow(img, plane, step, y, 0) \o ScanRows(img, plane, step, y + step)

\* mutant: the two chroma planes are written in the other order
rgb_to_i420_vu(img) ==
    ScanRows(img, "y", 1, 0) \o ScanRows(img, "v", 2, 0) \o ScanRows(img, "u", 2, 0)
\* the three loops of rgb_to_i420, pushing onto dest
rgb_to_i420(img) ==
    ScanRows(img, "y", 1, 0) \o ScanRows(img, "u", 2, 0) \o ScanRows(img, "v", 2, 0)

\* values a colour component takes in the one-pixel images
Levels == {0, 1, 128, 255}
Pixel(r, g, b) == [r |-> r, g |-> g, b |-> b]
\* the image of one pixel p
OnePixel(p) == [w |-> 1, h |-> 1, px |-> [c \in {<<0, 0>>} |-> p]]
\* a w x h image whose every pixel has its own colour
Patchwork(w, h) ==
    [w |-> w, h |-> h,
     px |-> [c \in (0..(w - 1)) \X (0..(h - 1)) |->
                Pixel(50 * c[1], 50 * c[2], 255 - 25 * (c[1] + c[2]))]]
\* the images the conversion is checked on
Images ==
    {OnePixel(Pixel(r, g, b)) : r \in Levels, g \in Levels, b \in Levels}
    \cup {Patchwork(w, h) : w \in 1..MaxDim, h \in 1..MaxDim}

\* a decoded image is about to be converted
InitI420 ==
    /\ Idle
    /\ image \in Images
    /\ dest = <<>>
    /\ ServerIdle

\* line 105: let data = rgb_to_i420(&cover_art)
Convert ==
    /\ image # NoImage
    /\ dest = <<>>
    /\ dest' = rgb_to_i420(image)
    /\ UNCHANGED image
    /\ UNCHANGED mainVars
    /\ UNCHANGED taskVars
    /\ UNCHANGED srvVars

NextI420 == Convert

SpecI420 == InitI420 /\ [][NextI420]_vars

(* ---------------------------------------------------------------------- *)
(* The request handlers (main.rs)                                          *)
(* ---------------------------------------------------------------------- *)
RECURSIVE BumpAll(_, _)
\* the counters after the increments among the events evs
BumpAll(cs, evs) ==
    IF evs = <<>> THEN cs
    ELSE BumpAll(IF Head(evs).op = "inc"
                 THEN [cs EXCEPT ![Head(evs).key[1]] = @ + 1]
                 ELSE cs,
                 Tail(evs))

\* the handler goes on at `to`, having done evs
Goes(hr, to, evs) == [hr EXCEPT !.pc = to, !.log = @ \o evs]

\* the handler returns Ok(response); handle_request_wrapper passes it on
\* (line 354)
Responds(hr, evs, code, body) ==
    [hr EXCEPT !.pc = "done", !.res = "Ok", !.code = code, !.body = body,
               !.log = @ \o evs]

\* the handler returns Err; handle_request_wrapper answers 500 and counts
\* the error (lines 355-363)
Errs(hr, evs) ==
    [hr EXCEPT !.pc = "done", !.res = "Err", !.code = 500,
               !.body = Plaintext("something bad happened!"),
               !.log = @ \o evs \o <<IncEv("page_errors")>>]

\* the handler panics: its task ends and no response is made
Panics(hr, evs) == [hr EXCEPT !.pc = "panicked", !.res = "Panic", !.log = @ \o evs]

\* the bag of requests with one request in the state old now in the state new
Becomes(old, new) == (handlers (-) SetToBag({old})) (+) SetToBag({new})

\* a request goes from old to new; the counters take the increments its
\* log has gained
Step(old, new) ==
    /\ handlers' = Becomes(old, new)
    /\ counters' = BumpAll(counters, SubSeq(new.log, Len(old.log) + 1, Len(new.log)))

\* a request comes and gets as far as new
Arrive(new) ==
    /\ handlers' = handlers (+) SetToBag({new})
    /\ counters' = BumpAll(counters, new.log)

\* lines 331-349, and each handler up to its first await:
\* handle_oembed (67-107), handle_metrics (297), handle_video (233-250),
\* handle_page (203-213)
Dispatch ==
    /\ BagCardinality(handlers) < MaxRequests
    /\ \E kind \in Kinds :
        \E path \in PathsOf(kind) :
          LET h0 == [NewHandler EXCEPT !.kind = kind, !.path = path]
              hx == [NewHandler EXCEPT !.kind = kind]
              decoded == Ev("decode", path, Nil, 0, TRUE)
              undecoded == Ev("decode", <<>>, Nil, 0, FALSE)
          IN \/ /\ kind = "oembed"
                /\ \/ Arrive(Errs(hx, <<undecoded>>))
                   \/ Arrive(Responds(h0, <<decoded, IncEv("oembed_requests")>>,
                                       200, Val("json", "oembed", Zero)))
             \/ /\ kind = "metrics"
                /\ Arrive(Goes(h0, "m_get", <<IncEv("metrics_requests")>>))
             \/ /\ kind = "video"
                /\ \/ Arrive(Errs(hx, <<undecoded>>))
                   \/ IF PAGE_URL(path)
                      THEN Arrive(Goes(h0, "v_get", <<decoded>>))
                      ELSE Arrive(Responds(h0, <<decoded, IncEv("invalid_page_requests")>>,
                                            404, Plaintext("invalid url, silly!")))
             \/ /\ kind = "page"
                /\ IF PAGE_SET_URL(path)
                   THEN Arrive(Goes(h0, "r_get", <<>>))
                   ELSE Arrive(Responds(h0, <<IncEv("invalid_page_requests")>>,
                                         301, Val("location", "https://soundcloud.com", Zero)))
    /\ UNCHANGED cache
    /\ UNCHANGED mainVars
    /\ UNCHANGED taskVars
    /\ UNCHANGED convVars

\* lines 251-260: read the video's key
VideoGet(hr) ==
    /\ hr.pc = "v_get"
    /\ LET key == VideoKey(hr.path)
           v == cache[key].val
       IN \/ Step(hr, Errs(hr, <<Ev("get", key, Nil, 0, FALSE)>>))
          \/ IF v # Nil
             THEN Step(hr, Responds(hr, <<Ev("get", key, v, 0, TRUE), IncEv("vid_cache_hits"),
                                         IncEv("video_requests")>>, 200, v))
             ELSE Step(hr, Goes(hr, "r_get", <<Ev("get", key, Nil, 0, TRUE),
                                             IncEv("vid_cache_misses")>>))
    /\ UNCHANGED cache
    /\ UNCHANGED mainVars
    /\ UNCHANGED taskVars
    /\ UNCHANGED convVars

\* resolve_cache has returned info to its caller: handle_page answers with
\* the page (lines 216-221), handle_video goes on for a track only (264-267)
AfterResolve(hr, evs, info) ==
    LET h1 == [hr EXCEPT !.resolved = info]
    IN IF hr.kind = "page"
       THEN Responds(h1, evs \o <<IncEv("page_requests")>>, 200, Html(info))
       ELSE IF info = "Track" THEN Goes(h1, "v_encode", evs) ELSE Errs(h1, evs)

\* lines 179-189: read the page's key and parse what it holds
ResolveGet(hr) ==
    /\ hr.pc = "r_get"
    /\ LET key == PageKey(hr.path)
           v == cache[key].val
           info == FromJson(v)
       IN \/ Step(hr, Errs(hr, <<Ev("get", key, Nil, 0, FALSE)>>))
          \/ IF info # "none"
             THEN Step(hr, AfterResolve(hr, <<Ev("get", key, v, 0, TRUE),
                                             IncEv("cache_hits")>>, info))
             ELSE Step(hr, Goes(hr, "r_api", <<Ev("get", key, v, 0, TRUE),
                                             IncEv("cache_misses")>>))
    /\ UNCHANGED cache
    /\ UNCHANGED mainVars
    /\ UNCHANGED taskVars
    /\ UNCHANGED convVars

\* lines 191-192: read the client id (a key no handler writes), then ask
\* the API
ResolveApi(hr) ==
    /\ hr.pc = "r_api"
    /\ LET id == Ev("get", ClientIdKey, cache[ClientIdKey].val, 0, TRUE)
       IN \/ Step(hr, Errs(hr, <<Ev("get", ClientIdKey, Nil, 0, FALSE)>>))
          \/ Step(hr, Errs(hr, <<id, Ev("api", hr.path, Nil, 0, FALSE)>>))
          \/ \E info \in ResolveInfos :
               Step(hr, Goes([hr EXCEPT !.resolved = info], "r_set",
                            <<id, Ev("api", hr.path, ToJson(info), 0, TRUE)>>))
    /\ UNCHANGED cache
    /\ UNCHANGED mainVars
    /\ UNCHANGED taskVars
    /\ UNCHANGED convVars

\* lines 194-196: store what the API returned, for CACHE_TTL_SECS
ResolveSet(hr) ==
    /\ hr.pc = "r_set"
    /\ LET key == PageKey(hr.path)
           v == ToJson(hr.resolved)
       IN \/ /\ Step(hr, Errs(hr, <<Ev("set", key, v, CACHE_TTL_SECS, FALSE)>>))
             /\ UNCHANGED cache
          \/ /\ cache' = [cache EXCEPT ![key] = Entry(v, CACHE_TTL_SECS)]
             /\ Step(hr, AfterResolve(hr, <<Ev("set", key, v, CACHE_TTL_SECS, TRUE)>>,
                                     hr.resolved))
    /\ UNCHANGED mainVars
    /\ UNCHANGED taskVars
    /\ UNCHANGED convVars

\* lines 269-279: read the client id, then call encode_video, which
\* returns the video or an error, or panics
VideoEncode(hr) ==
    /\ hr.pc = "v_encode"
    /\ LET id == Ev("get", ClientIdKey, cache[ClientIdKey].val, 0, TRUE)
       IN \/ Step(hr, Errs(hr, <<Ev("get", ClientIdKey, Nil, 0, FALSE)>>))
          \/ Step(hr, Errs(hr, <<id, Ev("encode", hr.path, Nil, 0, FALSE)>>))
          \/ Step(hr, Panics(hr, <<id, Ev("encode", hr.path, Nil, 0, FALSE)>>))
          \/ \E b \in Videos :
               Step(hr, Goes([hr EXCEPT !.video = b], "v_set",
                            <<id, Ev("encode", hr.path, Bytes(b), 0, TRUE)>>))
    /\ UNCHANGED cache
    /\ UNCHANGED mainVars
    /\ UNCHANGED taskVars
    /\ UNCHANGED convVars

\* lines 282-292: store the video for VID_CACHE_TTL and answer with it
VideoSet(hr) ==
    /\ hr.pc = "v_set"
    /\ LET key == VideoKey(hr.path)
           v == Bytes(hr.video)
       IN \/ /\ Step(hr, Errs(hr, <<Ev("set", key, v, VID_CACHE_TTL, FALSE)>>))
             /\ UNCHANGED cache
          \/ /\ cache' = [cache EXCEPT ![key] = Entry(v, VID_CACHE_TTL)]
             /\ Step(hr, Responds(hr, <<Ev("set", key, v, VID_CACHE_TTL, TRUE),
                                       IncEv("video_requests")>>, 200, v))
    /\ UNCHANGED mainVars
    /\ UNCHANGED taskVars
    /\ UNCHANGED convVars

\* lines 299-304: read the metrics key; when it is not there, gather the
\* counters and encode them
MetricsGet(hr) ==
    /\ hr.pc = "m_get"
    /\ LET v == cache[MetricsKey].val
       IN \/ Step(hr, Errs(hr, <<Ev("get", MetricsKey, Nil, 0, FALSE)>>))
          \/ IF v # Nil
             THEN Step(hr, Responds(hr, <<Ev("get", MetricsKey, v, 0, TRUE)>>, 200, v))
             ELSE Step(hr, Goes([hr EXCEPT !.snap = counters], "m_set",
                               <<Ev("get", MetricsKey, Nil, 0, TRUE)>>))
    /\ UNCHANGED cache
    /\ UNCHANGED mainVars
    /\ UNCHANGED taskVars
    /\ UNCHANGED convVars

\* lines 306-327: store the encoded counters for METRICS_CACHE_TTL, reset
\* every counter, answer
MetricsSet(hr) ==
    /\ hr.pc = "m_set"
    /\ LET v == Text(hr.snap)
       IN \/ /\ Step(hr, Errs(hr, <<Ev("set", MetricsKey, v, METRICS_CACHE_TTL, FALSE)>>))
             /\ UNCHANGED cache
          \/ /\ cache' = [cache EXCEPT ![MetricsKey] = Entry(v, METRICS_CACHE_TTL)]
             /\ counters' = Zero
             /\ handlers' = Becomes(hr,
                    Responds(hr, <<Ev("set", MetricsKey, v, METRICS_CACHE_TTL, TRUE)>>,
                             200, v))
    /\ UNCHANGED mainVars
    /\ UNCHANGED taskVars
    /\ UNCHANGED convVars

\* the database drops a key whose time to live has run out
Expire(k) ==
    /\ cache[k].val # Nil
    /\ cache[k].ttl > 0
    /\ cache' = [cache EXCEPT ![k] = NoEntry]
    /\ UNCHANGED <<counters, handlers>>
    /\ UNCHANGED mainVars
    /\ UNCHANGED taskVars
    /\ UNCHANGED convVars

\* the server is running; the database may hold what an earlier run left
InitServer ==
    /\ Idle
    /\ image = NoImage
    /\ dest = <<>>
    /\ cache \in InitialCaches
    /\ counters = Zero
    /\ handlers = EmptyBag

NextServer ==
    \/ Dispatch
    \/ \E hr \in BagToSet(handlers) : VideoGet(hr)
    \/ \E hr \in BagToSet(handlers) : ResolveGet(hr)
    \/ \E hr \in BagToSet(handlers) : ResolveApi(hr)
    \/ \E hr \in BagToSet(handlers) : ResolveSet(hr)
    \/ \E hr \in BagToSet(handlers) : VideoEncode(hr)
    \/ \E hr \in BagToSet(handlers) : VideoSet(hr)
    \/ \E hr \in BagToSet(handlers) : MetricsGet(hr)
    \/ \E hr \in BagToSet(handlers) : MetricsSet(hr)
    \/ \E k \in Keys : Expire(k)

SpecServer == InitServer /\ [][NextServer]_vars

Next ==
    \/ RequestManifest
    \/ RequestPlaylist
    \/ RequestImage
    \/ AddVideoTrack
    \/ EncoderNew
    \/ Encode
    \/ PollFinish
    \/ Join
    \/ ReadPacket
    \/ AddVideoFrame
    \/ Finalize
    \/ TaskNext
    \/ TaskFetched

Spec == Init /\ [][Next]_vars

TypeOK ==
    /\ pc \in {"manifest", "playlist", "image", "video_track", "encoder_new",
               "encode", "poll", "join", "repacketize", "video", "done"}
    /\ tpc \in {"unspawned", "next", "fetching", "done"}
    /\ rpos \in 0..Len(stream)
    /\ vpos \in 0..Len(frames)
    /\ offset >= 0

(* ---------------------------------------------------------------------- *)
(* Vocabulary of the properties                                            *)
(* ---------------------------------------------------------------------- *)
IsAudioAppend(c) == c.op = "audio_add_frame"
IsVideoAppend(c) == c.op = "video_add_frame"
AudioAppends == SelectSeq(trace, IsAudioAppend)
VideoAppends == SelectSeq(trace, IsVideoAppend)
\* track creations, appends and finalize, as the writer saw them
MuxCalls ==
    SelectSeq(trace, LAMBDA c : c.op \in {"add_video_track", "add_audio_track",
                                          "audio_add_frame", "video_add_frame", "finalize"})
\* the packets of s whose sample count can be determined
Determinable(s) == SelectSeq(s, LAMBDA p : GetNbSamples(p) # NoSamples)

RECURSIVE TotalSamples(_)
\* samples carried by the determinable packets of s
TotalSamples(s) ==
    IF Len(s) = 0 THEN 0
    ELSE (IF GetNbSamples(Head(s)) = NoSamples THEN 0 ELSE GetNbSamples(Head(s)))
         + TotalSamples(Tail(s))

\* samples of the packets the writer accepted among the first n calls
SamplesAcceptedBefore(n) ==
    TotalSamples([i \in 1..Len(SelectSeq(SubSeq(trace, 1, n), LAMBDA c : IsAudioAppend(c) /\ c.ok))
                    |-> SelectSeq(SubSeq(trace, 1, n), LAMBDA c : IsAudioAppend(c) /\ c.ok)[i].data])
SamplesAccepted == SamplesAcceptedBefore(Len(trace))

FailedCalls == {i \in 1..Len(trace) : ~trace[i].ok}
FinalizeCalls == {i \in 1..Len(trace) : trace[i].op = "finalize"}

(* ---------------------------------------------------------------------- *)
(* C1                                                                      *)
(* ---------------------------------------------------------------------- *)
\* C1: no add_frame on the video track happens before an add_frame on the
\* audio track: every audio append precedes every video append.
C1_AudioBeforeVideo ==
    \A i \in 1..Len(trace) :
        IsVideoAppend(trace[i]) => \A j \in i..Len(trace) : ~IsAudioAppend(trace[j])

\* both loops have appended, with video pts below the audio timestamps
C1_Witness ==
    /\ Len(AudioAppends) >= 2
    /\ Len(VideoAppends) >= 2
    /\ \E i, j \in 1..Len(trace) :
         /\ IsVideoAppend(trace[i]) /\ IsAudioAppend(trace[j])
         /\ trace[i].ts = 0 /\ trace[j].ts > 0

(* ---------------------------------------------------------------------- *)
(* C2                                                                      *)
(* ---------------------------------------------------------------------- *)
\* the appends of a finished assembly: N audio appends in input order
\* starting at call `from`, then M video appends in production order, then
\* one finalize
AppendsThenFinalize(mux, from) ==
    LET det == Determinable(stream)
        N == Len(det)
        M == Len(frames)
    IN /\ Len(mux) = from + N + M
       /\ \A i \in 1..N : /\ mux[from - 1 + i].op = "audio_add_frame"
                          /\ mux[from - 1 + i].data = det[i]
       /\ \A j \in 1..M : /\ mux[from - 1 + N + j].op = "video_add_frame"
                          /\ mux[from - 1 + N + j].data = frames[j].data
                          /\ mux[from - 1 + N + j].key = frames[j].key
       /\ mux[from + N + M].op = "finalize"

\* C2 as claimed: a successful assembly shows the writer the audio track
\* creation, the video track creation, N audio appends in input order,
\* M video appends in production order, then one finalize.
C2_ClaimedCallOrder ==
    result.kind = "Ok" =>
        /\ Len(MuxCalls) >= 2
        /\ MuxCalls[1].op = "add_audio_track"
        /\ MuxCalls[2].op = "add_video_track"
        /\ AppendsThenFinalize(MuxCalls, 3)

\* C2 amended: a successful assembly shows the writer the video track
\* creation, then the audio track creation, then N audio appends in input
\* order, M video appends in production order, then exactly one finalize.
C2_CallOrder ==
    result.kind = "Ok" =>
        /\ Len(MuxCalls) >= 2
        /\ MuxCalls[1].op = "add_video_track"
        /\ MuxCalls[2].op = "add_audio_track"
        /\ AppendsThenFinalize(MuxCalls, 3)
        /\ Cardinality(FinalizeCalls) = 1

\* a finished assembly with several different packets and frames
C2_Witness ==
    /\ result.kind = "Ok"
    /\ Len(Determinable(stream)) >= 2
    /\ Len(frames) = 2
    /\ frames[1] # frames[2]
    /\ \E i, j \in 1..Len(stream) :
         stream[i] # stream[j] /\ GetNbSamples(stream[i]) # NoSamples
                               /\ GetNbSamples(stream[j]) # NoSamples

(* ---------------------------------------------------------------------- *)
(* C3                                                                      *)
(* ---------------------------------------------------------------------- *)
\* C3: finalize is called at most once, exactly once when encode_video
\* returns Ok, and no call at all is made on the container after it.
C3_FinalizeOnceAndLast ==
    /\ Cardinality(FinalizeCalls) <= 1
    /\ \A i \in FinalizeCalls : i = Len(trace)
    /\ result.kind = "Ok" => Cardinality(FinalizeCalls) = 1

\* finalize was rejected after frames of both tracks had been appended
C3_Witness ==
    /\ pc = "done"
    /\ \E i \in FinalizeCalls : ~trace[i].ok
    /\ Len(AudioAppends) >= 1
    /\ Len(VideoAppends) >= 1

(* ---------------------------------------------------------------------- *)
(* C4                                                                      *)
(* ---------------------------------------------------------------------- *)
\* the failure points C4 lists
FatalOps == {"manifest_fetch", "manifest_parse", "playlist_fetch", "image_fetch",
             "image_decode", "set_color", "encode", "finish", "poll", "join",
             "read_packet", "audio_add_frame", "video_add_frame", "finalize"}

\* C4: encode_video returns the bytes of a container whose finalize call
\* succeeded, or exactly one error and no bytes: a failure at any of the
\* listed points ends the function with Err, and the partially written
\* buffer is never returned.
C4_WholeOutputOrOneError ==
    /\ \A i \in FailedCalls :
         trace[i].op \in FatalOps =>
            /\ pc = "done"
            /\ result = ErrResult(trace[i].op)
            /\ i = Len(trace)
    /\ result.kind = "Err" => /\ result.bytes = <<>>
                              /\ Cardinality(FailedCalls) = 1
    /\ result.kind = "Ok" => /\ FailedCalls = {}
                             /\ trace[Len(trace)].op = "finalize"
                             /\ result.bytes = Out
    /\ pc = "done" <=> result.kind # "None"

\* a write was rejected when the buffer already held accepted frames
C4_Witness ==
    /\ result.kind = "Err"
    /\ result.err \in {"video_add_frame", "finalize"}
    /\ Len(Out) >= 4

(* ---------------------------------------------------------------------- *)
(* C5                                                                      *)
(* ---------------------------------------------------------------------- *)
\* the step reads one packet, whose sample count is / is not determined
ReadsDetermined == rpos' = rpos + 1 /\ GetNbSamples(stream[rpos']) # NoSamples
ReadsSkipped == rpos' = rpos + 1 /\ GetNbSamples(stream[rpos']) = NoSamples

\* C5: the running audio clock starts at 0, never decreases, is changed
\* only by a packet whose sample count was determined, and is left
\* unchanged by every skipped packet.
C5_ClockMonotone ==
    /\ offset = 0
    /\ [](rpos = 0 => offset = 0)
    /\ [][ /\ offset' >= offset
           /\ offset' # offset => pc = "repacketize" /\ ReadsDetermined
           /\ pc = "repacketize" /\ ReadsSkipped => offset' = offset ]_vars

\* the clock has advanced and a skipped packet has been read after that
C5_Witness ==
    /\ rpos >= 2
    /\ offset > 0
    /\ GetNbSamples(stream[1]) # NoSamples
    /\ GetNbSamples(stream[rpos]) = NoSamples

(* ---------------------------------------------------------------------- *)
(* C6                                                                      *)
(* ---------------------------------------------------------------------- *)
\* C6: after packets totalling S samples the clock equals
\* S * time_units_per_second / sample_rate exactly, with no accumulated
\* rounding error.
C6_ClockExact ==
    pc \in {"repacketize", "video"} =>
        \* both sides divided by gcd(ns_per_sec, sample_rate) = 16000
        offset * (sample_rate \div 16000) = SamplesAccepted * (ns_per_sec \div 16000)

(* ---------------------------------------------------------------------- *)
(* C7                                                                      *)
(* ---------------------------------------------------------------------- *)
RECURSIVE ExpectedAppends(_, _)
\* the appends the packets of s call for, the first at clock value `clock`:
\* payload, keyframe flag and timestamp of each
ExpectedAppends(s, clock) ==
    IF Len(s) = 0 THEN <<>>
    ELSE IF GetNbSamples(Head(s)) = NoSamples THEN ExpectedAppends(Tail(s), clock)
    ELSE <<[data |-> Head(s), key |-> FALSE, ts |-> clock]>>
         \o ExpectedAppends(Tail(s), clock + GetNbSamples(Head(s)) * (ns_per_sec \div sample_rate))

\* C7: the audio appends are exactly the packets read whose sample count
\* could be determined, verbatim, never as keyframes, each at the clock
\* value held before its own advance; a packet whose sample count cannot be
\* determined is not appended, does not fail the assembly, and the loop
\* goes on.
C7_AppendsAreDeterminedPackets ==
    /\ [](/\ [i \in 1..Len(AudioAppends) |->
                [data |-> AudioAppends[i].data, key |-> AudioAppends[i].key,
                 ts |-> AudioAppends[i].ts]]
             = ExpectedAppends(SubSeq(stream, 1, rpos), 0)
          /\ pc \in {"repacketize", "video"} =>
                offset = TotalSamples(SubSeq(stream, 1, rpos)) * (ns_per_sec \div sample_rate))
    /\ [][pc = "repacketize" /\ ReadsSkipped =>
            /\ trace' = trace
            /\ result' = result
            /\ pc' = "repacketize"]_vars

\* three packets read, the second undeterminable: two appends, and the
\* clock holds the durations of the first and the third
C7_Witness ==
    /\ pc = "repacketize"
    /\ rpos = 3
    /\ stream = <<"P960", "PBAD", "P960">>
    /\ Len(AudioAppends) = 2
    /\ offset = 2 * 960 * 2083

(* ---------------------------------------------------------------------- *)
(* C8                                                                      *)
(* ---------------------------------------------------------------------- *)
\* C8: both tracks are stamped in nanoseconds: a video frame with pts p
\* (in 1/1000 s) is appended at p * 1,000,000, and an audio packet that
\* follows exactly one second of audio (48000 samples) is appended at
\* 1,000,000,000.
C8_NanosecondTimebase ==
    /\ \A k \in 1..Len(VideoAppends) : VideoAppends[k].ts = frames[k].pts * 1000000
    /\ \A i \in 1..Len(trace) :
         IsAudioAppend(trace[i]) /\ SamplesAcceptedBefore(i - 1) = 48000
            => trace[i].ts = 1000000000

(* ---------------------------------------------------------------------- *)
(* C9                                                                      *)
(* ---------------------------------------------------------------------- *)
\* C9: the duration passed to finalize is the final clock in milliseconds,
\* floor(S * 1000 / 48000) for audio totalling S samples, computed after
\* the last audio packet has been processed.
C9_DurationMillis ==
    \A i \in FinalizeCalls :
        /\ rpos = Len(stream)
        /\ trace[i].ts = (SamplesAccepted * 1000) \div 48000

(* ---------------------------------------------------------------------- *)
(* C10                                                                     *)
(* ---------------------------------------------------------------------- *)
\* the lines of a text: a final newline ends the last line, it does not
\* begin another
LinesOf(text) ==
    IF Len(text) = 0 THEN <<>>
    ELSE IF text[Len(text)] = NL THEN Split(SubSeq(text, 1, Len(text) - 1))
    ELSE Split(text)
SegmentLinesOf(text) == SelectSeq(LinesOf(text), LAMBDA l : ~StartsWithHash(l))
FetchedUrls == [i \in 1..Len(fetched) |-> fetched[i].url]
IsPrefix(s, t) == Len(s) <= Len(t) /\ s = SubSeq(t, 1, Len(s))

\* C10: whether or not the playlist ends with a newline, the segment
\* fetches issued are one per segment-URL line, in file order, none for a
\* comment line.
C10_OneFetchPerSegmentLine ==
    tpc # "unspawned" /\ Len(playlist) > 0 =>
        /\ IsPrefix(FetchedUrls, SegmentLinesOf(playlist))
        /\ tpc = "done" /\ tresult.kind = "Ok" => FetchedUrls = SegmentLinesOf(playlist)

(* ---------------------------------------------------------------------- *)
(* C11                                                                     *)
(* ---------------------------------------------------------------------- *)
\* positions of the calls op in trace
Idx(op) == {i \in 1..Len(trace) : trace[i].op = op}

RECURSIVE ConcatBodies(_)
\* the bodies of the answered requests of fs, one after the other
ConcatBodies(fs) ==
    IF Len(fs) = 0 THEN <<>>
    ELSE (IF Head(fs).state = "ok" THEN Head(fs).body ELSE <<>>) \o ConcatBodies(Tail(fs))

\* C11: the task fetches the segments one at a time, in playlist order
\* (a request is sent only when every earlier one has been answered), and
\* the bytes it returns are the segment bodies in playlist order, none
\* left out, repeated or moved.
C11_SequentialInOrder ==
    /\ \A i \in 1..(Len(fetched) - 1) : fetched[i].state = "ok"
    /\ tpc = "fetching" <=> (Len(fetched) > 0 /\ fetched[Len(fetched)].state = "sent")
    /\ IsPrefix(SelectSeq(FetchedUrls, LAMBDA u : u # <<>>), SegmentLinesOf(playlist))
    /\ tdata = ConcatBodies(fetched)
    /\ tresult.kind = "Ok" => /\ FetchedUrls = SegmentLinesOf(playlist)
                              /\ tresult.bytes = ConcatBodies(fetched)

\* the task has returned the bytes of several segments with different bodies
C11_Witness ==
    /\ tresult.kind = "Ok"
    /\ Len(fetched) >= 2
    /\ fetched[1].body # fetched[2].body
    /\ fetched[1].url # fetched[2].url

(* ---------------------------------------------------------------------- *)
(* C12                                                                     *)
(* ---------------------------------------------------------------------- *)
SegmentFailed == \E i \in 1..Len(fetched) : fetched[i].state = "failed"

\* C12: once the fetch of a segment has failed the task fetches nothing
\* more, encode_video returns an error, no frame is appended to either
\* track and finalize is not called.
C12_SegmentFailureAborts ==
    SegmentFailed =>
        /\ fetched[Len(fetched)].state = "failed"
        /\ tpc = "done"
        /\ tresult.kind = "Err"
        /\ Idx("audio_add_frame") = {}
        /\ Idx("video_add_frame") = {}
        /\ Idx("finalize") = {}
        /\ pc = "done" => result.kind = "Err"

(* ---------------------------------------------------------------------- *)
(* C13                                                                     *)
(* ---------------------------------------------------------------------- *)
\* C13: a response with a non-success status is a fetch failure: the request
\* that got it ends in an error and its body is not used.
C13_NonSuccessIsFailure ==
    /\ status = "failure" => pc = "done" /\ result.kind = "Err"
    /\ tstatus = "failure" => tpc = "done" /\ tresult.kind = "Err"

(* ---------------------------------------------------------------------- *)
(* C14                                                                     *)
(* ---------------------------------------------------------------------- *)
\* C14: one download task is forked, before the image fetch begins, and it
\* is joined once; the join comes after the image has been decoded and the
\* frames encoded and before the first packet is read or appended, so
\* nothing is appended to the audio track while the task still runs.
C14_ForkJoin ==
    /\ Cardinality(Idx("spawn")) <= 1
    /\ Cardinality(Idx("join")) <= 1
    /\ tpc # "unspawned" <=> Idx("spawn") # {}
    /\ \A i \in Idx("image_fetch") : \E j \in Idx("spawn") : j < i
    /\ \A j \in Idx("join") :
         /\ \A i \in Idx("image_decode") \cup Idx("encode") \cup Idx("emit") \cup Idx("poll") : i < j
         /\ \A i \in Idx("read_packet") \cup Idx("audio_add_frame") : j < i
         /\ tpc = "done"
    /\ (rpos > 0 \/ pc \in {"repacketize", "video"} \/ Idx("audio_add_frame") # {}
          \/ result.kind = "Ok")
         => /\ Cardinality(Idx("spawn")) = 1
            /\ Cardinality(Idx("join")) = 1
            /\ Idx("image_decode") # {}
            /\ Idx("encode") # {}
            /\ tpc = "done"

\* packets are being appended after the one join, with frames encoded
C14_Witness ==
    /\ pc = "repacketize"
    /\ Idx("audio_add_frame") # {}
    /\ Len(frames) >= 1
    /\ Len(fetched) >= 2

(* ---------------------------------------------------------------------- *)
(* C15                                                                     *)
(* ---------------------------------------------------------------------- *)
\* errors of the image and encode branch of the calling sequence
BranchErrs == {"image_fetch", "image_decode", "encode", "finish", "poll"}

\* C15 as claimed: when both branches fail, the error returned is the one
\* that occurred first: a step of the calling sequence that fails after a
\* segment fetch has failed does not return its own error.
C15_FirstErrorReturned ==
    [][~(/\ tresult.kind = "Err"
         /\ result.kind = "None"
         /\ result'.kind = "Err"
         /\ result'.err \in BranchErrs)]_vars

\* C15 amended: when both branches fail, the error returned is the calling
\* sequence's own, whichever came first; the error of a segment fetch is
\* returned at the join only, when the calling sequence has got that far.
C15_CallerErrorReturned ==
    /\ [](result.err = "join" =>
            /\ tresult.kind = "Err"
            /\ trace[Len(trace)].op = "join"
            /\ Idx("decoder_new") # {})
    /\ [][result.kind = "None" /\ result'.kind = "Err" /\ pc # "join" =>
            /\ result'.err = trace'[Len(trace')].op
            /\ result'.err # "join"]_vars

\* both branches have failed and the calling sequence's error was returned
C15_Witness ==
    /\ tresult.kind = "Err"
    /\ result.kind = "Err"
    /\ result.err \in BranchErrs

(* ---------------------------------------------------------------------- *)
(* C16 (under SpecI420)                                                    *)
(* ---------------------------------------------------------------------- *)
\* width and height of the chroma planes
ChromaW == (image.w + 1) \div 2
ChromaH == (image.h + 1) \div 2
Converted == image # NoImage /\ dest # <<>>

\* the samples as C16 gives them; \div rounds down, as the arithmetic shift
ShiftY(p) == clamp(((66 * p.r + 129 * p.g + 25 * p.b + 128) \div 256) + 16)
ShiftU(p) == clamp(((-38 * p.r - 74 * p.g + 112 * p.b + 128) \div 256) + 128)
ShiftV(p) == clamp(((112 * p.r - 94 * p.g - 18 * p.b + 128) \div 256) + 128)

\* C16: every sample is the clamped sum of the offset and the weighted sum
\* shifted right by 8 bits (arithmetic shift, rounding down).
C16_ShiftFormula ==
    Converted =>
        /\ \A x \in 0..(image.w - 1), y \in 0..(image.h - 1) :
             dest[y * image.w + x + 1] = ShiftY(image.px[<<x, y>>])
        /\ \A i \in 0..(ChromaW - 1), j \in 0..(ChromaH - 1) :
             /\ dest[image.w * image.h + j * ChromaW + i + 1]
                  = ShiftU(image.px[<<2 * i, 2 * j>>])
             /\ dest[image.w * image.h + ChromaW * ChromaH + j * ChromaW + i + 1]
                  = ShiftV(image.px[<<2 * i, 2 * j>>])

(* ---------------------------------------------------------------------- *)
(* C17 (under SpecI420)                                                    *)
(* ---------------------------------------------------------------------- *)
\* C17: the result is w*h luma bytes in row-major order, then a U plane and
\* a V plane of ceil(w/2) * ceil(h/2) bytes each, chroma sample (i, j) taken
\* from the pixel at (2i, 2j).
C17_PlaneLayout ==
    Converted =>
        /\ Len(dest) = image.w * image.h + 2 * ChromaW * ChromaH
        /\ \A x \in 0..(image.w - 1), y \in 0..(image.h - 1) :
             dest[y * image.w + x + 1] = Sample("y", image.px[<<x, y>>])
        /\ \A i \in 0..(ChromaW - 1), j \in 0..(ChromaH - 1) :
             /\ dest[image.w * image.h + j * ChromaW + i + 1]
                  = Sample("u", image.px[<<2 * i, 2 * j>>])
             /\ dest[image.w * image.h + ChromaW * ChromaH + j * ChromaW + i + 1]
                  = Sample("v", image.px[<<2 * i, 2 * j>>])

\* a 4x4 image has been converted: 16 luma bytes and two 2x2 chroma planes
C17_Witness ==
    /\ image.w = 4
    /\ image.h = 4
    /\ Len(dest) = 16 + 4 + 4

(* ---------------------------------------------------------------------- *)
(* C18                                                                     *)
(* ---------------------------------------------------------------------- *)
FrameAppends == Idx("audio_add_frame") \cup Idx("video_add_frame")

\* C18: the colour metadata is set once, right after the video track is
\* created and before any frame is appended; when it is rejected
\* encode_video returns an error and creates no audio track, appends no
\* frame and does not finalize.
C18_ColorSetOnceFirst ==
    /\ Cardinality(Idx("set_color")) <= 1
    /\ \A i \in Idx("add_video_track") : i < Len(trace) /\ trace[i + 1].op = "set_color"
    /\ \A i \in Idx("set_color") :
         /\ i > 1 /\ trace[i - 1].op = "add_video_track"
         /\ \A j \in FrameAppends : i < j
         /\ ~trace[i].ok =>
              /\ i = Len(trace)
              /\ pc = "done"
              /\ result = ErrResult("set_color")
    /\ FrameAppends # {} \/ result.kind = "Ok" => Cardinality(Idx("set_color")) = 1

\* set_color was rejected while the download task existed
C18_Witness ==
    /\ result.err = "set_color"
    /\ tpc # "unspawned"

(* ---------------------------------------------------------------------- *)
(* C19                                                                     *)
(* ---------------------------------------------------------------------- *)
\* C19: when the codec cannot be configured encode_video returns an error
\* value; it does not panic.
C19_ConfigFailureIsError ==
    \A i \in Idx("encoder_new") : ~trace[i].ok => result.kind = "Err"

(* ---------------------------------------------------------------------- *)
(* C20                                                                     *)
(* ---------------------------------------------------------------------- *)
Emitted == SelectSeq(trace, LAMBDA c : c.op = "emit")

\* C20: the frames appended to the video track are the frames the encoder
\* emitted, from the one encode call and then from the polls of the
\* finished encoder, in emission order, each with its payload, keyframe
\* flag and pts; none is dropped, repeated or moved, and the encoder is fed
\* once and finished once.
C20_AppendsAreEmittedFrames ==
    /\ Cardinality(Idx("encode")) <= 1
    /\ Cardinality(Idx("finish")) <= 1
    /\ Len(VideoAppends) <= Len(Emitted)
    /\ \A k \in 1..Len(VideoAppends) :
         /\ VideoAppends[k].data = Emitted[k].data
         /\ VideoAppends[k].key = Emitted[k].key
         /\ VideoAppends[k].ts = Emitted[k].ts * 1000000
    /\ \A i \in Idx("emit"), j \in Idx("video_add_frame") : i < j
    /\ Idx("finalize") # {} =>
         /\ Len(VideoAppends) = Len(Emitted)
         /\ Cardinality(Idx("encode")) = 1
         /\ Cardinality(Idx("finish")) = 1
         /\ \E last \in Idx("poll") :
              /\ \A i \in Idx("poll") \cup Idx("emit") : i <= last
              /\ trace[last].ok

\* the container was finalized with a frame from encode and one from a poll
C20_Witness ==
    /\ Idx("finalize") # {}
    /\ Len(VideoAppends) = 2
    /\ VideoAppends[1] # VideoAppends[2]
    /\ \E i \in Idx("emit"), j \in Idx("finish"), k \in Idx("emit") : i < j /\ j < k

(* ---------------------------------------------------------------------- *)
(* C21                                                                     *)
(* ---------------------------------------------------------------------- *)
\* C21: a container is never finalized and returned with no video frame
\* appended to it, whatever the encoder does.
C21_VideoNonEmpty ==
    result.kind = "Ok" => /\ Idx("finalize") # {}
                          /\ Len(VideoAppends) >= 1

(* ---------------------------------------------------------------------- *)
(* C22                                                                     *)
(* ---------------------------------------------------------------------- *)
RejectedWrites ==
    {i \in Idx("audio_add_frame") \cup Idx("video_add_frame") \cup Idx("finalize") :
        ~trace[i].ok}

\* C22: when the writer rejects an audio append, a video append or the
\* finalize call, encode_video returns an error there: no append and no
\* finalize call comes after a rejected one.
C22_RejectedWriteReturns ==
    \A i \in RejectedWrites :
        /\ i = Len(trace)
        /\ pc = "done"
        /\ result = ErrResult(trace[i].op)
        /\ \A j \in FrameAppends \cup Idx("finalize") : j <= i

\* the second video append was rejected after accepted audio appends
C22_Witness ==
    /\ result.err = "video_add_frame"
    /\ Len(AudioAppends) >= 2
    /\ Len(VideoAppends) = 2
    /\ ~trace[Len(trace)].ok

(* ---------------------------------------------------------------------- *)
(* C23                                                                     *)
(* ---------------------------------------------------------------------- *)
\* errors of the calling sequence that come before the join
EarlyErrs == {"image_fetch", "image_decode", "set_color", "encode", "finish", "poll"}

\* C23: once encode_video has returned an error from before the join, its
\* download task requests no further segment (the request of the empty
\* piece after a final newline, which is refused unsent, is not counted).
C23_TaskAbortedOnError ==
    [][(result.kind = "Err" /\ result.err \in EarlyErrs)
         => \A i \in (Len(fetched) + 1)..Len(fetched') : fetched'[i].url = <<>>]_vars

(* ---------------------------------------------------------------------- *)
(* Vocabulary of the server's properties (under SpecServer)                *)
(* ---------------------------------------------------------------------- *)
Served == BagToSet(handlers)
\* positions of the events op in a request's log
OpsOf(hr, op) == {i \in 1..Len(hr.log) : hr.log[i].op = op}
\* positions of the increments of the counter c
IncsOf(hr, c) == {i \in OpsOf(hr, "inc") : hr.log[i].key = <<c>>}
\* positions of the reads and of the writes of keys that begin with prefix
GetsOf(hr, prefix) == {i \in OpsOf(hr, "get") : hr.log[i].key[1] = prefix}
SetsOf(hr, prefix) == {i \in OpsOf(hr, "set") : hr.log[i].key[1] = prefix}
\* positions of the writes of video bytes, whatever the key
ByteSets(hr) == {i \in OpsOf(hr, "set") : hr.log[i].val.tag = "bytes"}
\* the read of the video's key found a video
VideoHit(hr) ==
    \E i \in GetsOf(hr, "video:") : hr.log[i].ok /\ hr.log[i].val # Nil

(* ---------------------------------------------------------------------- *)
(* C24                                                                     *)
(* ---------------------------------------------------------------------- *)
\* C24: handle_video reads "video:{path}" first; a hit is answered with the
\* cached bytes without a resolve or a call of encode_video; after a miss
\* the bytes encode_video returned with Ok, and nothing else, are stored
\* under that key for 24 hours before they are the answer; nothing is
\* stored when the resolve or encode_video fails or the path is a
\* playlist's.
C24_VideoCacheAside ==
    \A hr \in Served :
        LET L == hr.log
            key == Key("video:", hr.path)
        IN /\ ByteSets(hr) # {} => hr.kind = "video"
           /\ hr.kind = "video" =>
                /\ Cardinality(GetsOf(hr, "video:")) <= 1
                /\ \A i \in OpsOf(hr, "get") \cup OpsOf(hr, "api") \cup OpsOf(hr, "encode")
                         \cup OpsOf(hr, "set") :
                      \E g \in GetsOf(hr, "video:") : g <= i /\ L[g].key = key
                /\ VideoHit(hr) =>
                      /\ OpsOf(hr, "api") \cup OpsOf(hr, "encode") \cup OpsOf(hr, "set") = {}
                      /\ GetsOf(hr, "page:") = {}
                      /\ hr.pc = "done" /\ hr.res = "Ok" /\ hr.code = 200
                      /\ \E g \in GetsOf(hr, "video:") : hr.body = L[g].val
                /\ \A i \in ByteSets(hr) :
                      /\ L[i].key = key
                      /\ L[i].ttl = 24 * 60 * 60
                      /\ Cardinality(OpsOf(hr, "encode")) = 1
                      /\ \E j \in OpsOf(hr, "encode") :
                            j < i /\ L[j].ok /\ L[j].val = L[i].val
                      /\ hr.resolved = "Track"
                      /\ \A j \in OpsOf(hr, "api") : L[j].ok
                /\ (hr.res = "Ok" /\ hr.code = 200 /\ ~VideoHit(hr)) =>
                      \E i \in ByteSets(hr) : L[i].ok /\ hr.body = L[i].val
                /\ Cardinality(ByteSets(hr)) <= 1

\* one request missed, encoded and stored a video; another found it
C24_Witness ==
    \E a, b \in Served :
        /\ a.kind = "video" /\ a.res = "Ok" /\ ~VideoHit(a)
        /\ \E i \in ByteSets(a) : a.log[i].ok /\ a.body = a.log[i].val
        /\ b.kind = "video" /\ b.res = "Ok" /\ VideoHit(b)
        /\ b.body = a.body

(* ---------------------------------------------------------------------- *)
(* C25                                                                     *)
(* ---------------------------------------------------------------------- *)
\* the read of the page's key found an entry that parses
PageHit(hr) ==
    \E i \in GetsOf(hr, "page:") : hr.log[i].ok /\ hr.log[i].val.tag = "json"

\* C25: every call of resolve_cache increments one of cache_hits and
\* cache_misses, once; an entry that parses is returned without an API
\* request; a missing or unparseable entry is followed by one API resolve,
\* whose result is stored under "page:{path}" for 8 hours only when the
\* resolve succeeded.
C25_ResolveCacheAside ==
    \A hr \in Served :
        LET L == hr.log
            called == GetsOf(hr, "page:") # {}
            apis == OpsOf(hr, "api")
        IN called =>
             /\ Cardinality(IncsOf(hr, "cache_hits") \cup IncsOf(hr, "cache_misses")) = 1
             /\ PageHit(hr) => apis = {} /\ IncsOf(hr, "cache_hits") # {}
             /\ (~PageHit(hr) /\ hr.pc # "r_api") => Cardinality(apis) = 1
             /\ \A i \in SetsOf(hr, "page:") :
                   /\ L[i].key = Key("page:", hr.path)
                   /\ L[i].ttl = 8 * 60 * 60
                   /\ \E j \in apis : j < i /\ L[j].ok /\ L[j].val = L[i].val

\* C25 amended: a call whose read of "page:{path}" succeeds increments one
\* of cache_hits and cache_misses, once; a call whose read fails increments
\* neither and returns the error. An entry that parses is returned without
\* an API request; a missing or unparseable entry is followed by at most
\* one API resolve, by one when the client id could be read, and its
\* result is stored under "page:{path}" for 8 hours only when the resolve
\* succeeded.
C25_ResolveCacheAsideRead ==
    \A hr \in Served :
        LET L == hr.log
            apis == OpsOf(hr, "api")
            hits == IncsOf(hr, "cache_hits")
            misses == IncsOf(hr, "cache_misses")
        IN /\ Cardinality(GetsOf(hr, "page:")) <= 1
           /\ GetsOf(hr, "page:") = {} => hits \cup misses \cup apis \cup SetsOf(hr, "page:") = {}
           /\ \A g \in GetsOf(hr, "page:") :
                /\ L[g].key = Key("page:", hr.path)
                /\ L[g].ok => /\ Cardinality(hits \cup misses) = 1
                              /\ hits \cup misses = {g + 1}
                              /\ PageHit(hr) <=> hits # {}
                /\ ~L[g].ok => /\ hits \cup misses \cup apis = {}
                               /\ hr.res = "Err"
                /\ PageHit(hr) => apis \cup SetsOf(hr, "page:") = {}
                /\ Cardinality(apis) <= 1
                /\ (misses # {} /\ \E i \in GetsOf(hr, "client_id") : L[i].ok)
                      => Cardinality(apis) = 1
                /\ \A i \in SetsOf(hr, "page:") :
                      /\ L[i].key = Key("page:", hr.path)
                      /\ L[i].ttl = 8 * 60 * 60
                      /\ \E j \in apis : j < i /\ L[j].ok /\ L[j].val = L[i].val

\* one call found an entry that does not parse, resolved and stored the
\* result; another call's read failed
C25_Witness ==
    \E a, b \in Served :
        /\ \E g \in GetsOf(a, "page:") : a.log[g].ok /\ a.log[g].val.tag = "raw"
        /\ \E i \in SetsOf(a, "page:") : a.log[i].ok
        /\ \E g \in GetsOf(b, "page:") : ~b.log[g].ok
        /\ b.res = "Err"

(* ---------------------------------------------------------------------- *)
(* C26                                                                     *)
(* ---------------------------------------------------------------------- *)
\* what a request has done besides decoding its query
Doings(hr) == SelectSeq(hr.log, LAMBDA e : e.op # "decode")

C27_ErrorsBecome500 ==
    \A hr \in Served :
        /\ hr.res = "Err" =>
              /\ hr.code = 500
              /\ Cardinality(IncsOf(hr, "page_errors")) = 1
        /\ hr.res = "Ok" =>
              /\ hr.code \in {200, 301, 404}
              /\ IncsOf(hr, "page_errors") = {}
        /\ \A i \in OpsOf(hr, "encode") :
              ~hr.log[i].ok =>
                 /\ hr.pc = "done"
                 /\ hr.code = 500
                 /\ Cardinality(IncsOf(hr, "page_errors")) = 1

(* ---------------------------------------------------------------------- *)
(* C28                                                                     *)
(* ---------------------------------------------------------------------- *)
\* the counter values in the snapshot a request has stored, 0 if none
ReportedIn(hr, c) ==
    LET S == {i \in SetsOf(hr, "metrics") : hr.log[i].ok}
    IN IF S = {} THEN 0 ELSE hr.log[CHOOSE i \in S : TRUE].val.n[c]

RECURSIVE Total(_, _, _)
\* over the requests in S: the increments of c made (what = "made"), or the
\* values of c in the snapshots stored
Total(S, c, what) ==
    IF S = {} THEN 0
    ELSE LET hr == CHOOSE x \in S : TRUE
         IN CopiesIn(hr, handlers)
               * (IF what = "made" THEN Cardinality(IncsOf(hr, c)) ELSE ReportedIn(hr, c))
            + Total(S \ {hr}, c, what)

\* C28: no increment is lost or counted twice: the increments made of a
\* counter are those in the stored snapshots and those the counter still
\* holds.
C28_IncrementsConserved ==
    \A c \in Counters :
        \/ \E hr \in Served : hr.pc = "m_set"
        \/ Total(Served, c, "made") = Total(Served, c, "stored") + counters[c]
====
